---- MODULE Spec2Model ----
(***************************************************************************)
(* Model of the project discovery and activity classification engine of    *)
(* mcp-projects: path sandboxing (lib/security), the git synchronisation    *)
(* classifier (src/git.ts), the activity aggregator (src/activity.ts), the  *)
(* directory scanner (src/scanner.ts) and the SQLite store (src/db.ts).     *)
(***************************************************************************)
EXTENDS Integers, Sequences, FiniteSets, TLC

VARIABLES
    input,           \* argument record of a directly called function
    output,          \* its result, or NoResult before the call
    projects,        \* rows of table projects
    activity_stats,  \* rows of table activity_stats
    nextProjectId,   \* AUTOINCREMENT counter of projects.id
    nextStatId,      \* AUTOINCREMENT counter of activity_stats.id
    now,             \* wall clock read by new Date()
    env,             \* the repository state of the scanned git project
    scan,            \* per scanDirectory invocation: position and locals
    ana,             \* per analyzeProjectActivity invocation: position and locals
    last,            \* the last completed store operation or handler step
    lastGiven        \* history: count last given per (project id, date)

vars == <<input, output, projects, activity_stats, nextProjectId, nextStatId,
          now, env, scan, ana, last, lastGiven>>

Null == "NULL"
NoResult == [kind |-> "none"]

(***************************************************************************)
(* Paths are sequences of segments below "/".                              *)
(***************************************************************************)
MaxPathLen == 4

Segments == {"home", "u", "etc", "..", "lnk", "outside"}

RECURSIVE PathsUpTo(_)
PathsUpTo(n) ==
    IF n = 0 THEN {<<>>}
    ELSE LET shorter == PathsUpTo(n - 1)
         IN  shorter \cup {Append(p, s) : p \in {q \in shorter : Len(q) = n - 1}, s \in Segments}

HOME == <<"home", "u">>

\* Symbolic links of the file system: canonical location -> target.
IsSymlink(p) == p = <<"home", "u", "lnk">> \/ p = <<"etc", "in">>

SymlinkTarget(p) == IF p = <<"home", "u", "lnk">> THEN <<"etc">> ELSE HOME

\* Canonicalisation: '..' pops a segment, a symbolic link is replaced by its target.
RECURSIVE Resolve(_, _)
Resolve(stack, rest) ==
    IF rest = <<>> THEN stack
    ELSE LET s == Head(rest)
         IN  IF s = ".."
             THEN Resolve(IF stack = <<>> THEN <<>> ELSE SubSeq(stack, 1, Len(stack) - 1),
                          Tail(rest))
             ELSE LET p == Append(stack, s)
                  IN  Resolve(IF IsSymlink(p) THEN SymlinkTarget(p) ELSE p, Tail(rest))

Canonical(p) == Resolve(<<>>, p)

IsWithin(c, r) == Len(r) <= Len(c) /\ SubSeq(c, 1, Len(r)) = r

\* Mutant: containment decided on the raw candidate, '..' and links unresolved.
validatePathRaw(p, roots) ==
    IF \E r \in roots : IsWithin(p, Canonical(r))
    THEN [kind |-> "ok", path |-> Canonical(p)]
    ELSE [kind |-> "error", message |-> "Access denied", path |-> p]

validatePath(p, roots) ==
    LET c == Canonical(p)
    IN  IF \E r \in roots : IsWithin(c, Canonical(r))
        THEN [kind |-> "ok", path |-> c]
        ELSE [kind |-> "error", message |-> "Access denied", path |-> p]

(***************************************************************************)
(* src/git.ts: getGitInfo.  A repository is what its git commands answer:   *)
(* an output, or Fail when the command exits non-zero or times out.         *)
(***************************************************************************)
Fail == "FAIL"

Hashes == {"h1", "h2", "h3"}

SyncStatus == {"Synced", "Ahead", "Behind", "Diverged", "Unknown", "NoRemote"}

GitRepos ==
    [branch : {"main", Fail}, remoteUrl : {"git@origin", Fail}, fetch : {"ok", Fail},
     local : Hashes \cup {Fail}, remoteRef : Hashes \cup {Fail}, base : Hashes \cup {Fail}]

Min(S) == CHOOSE x \in S : \A y \in S : x <= y

\* Mutant: the Behind and Ahead rows of the table swapped.
ClassifySwapped(local, remote, base) ==
    IF local = remote THEN "Synced"
    ELSE IF local = base THEN "Ahead"
    ELSE IF remote = base THEN "Behind"
    ELSE "Diverged"

Classify(local, remote, base) ==
    IF local = remote THEN "Synced"
    ELSE IF local = base THEN "Behind"
    ELSE IF remote = base THEN "Ahead"
    ELSE "Diverged"

\* The four commands of the sync check, in the order they are awaited.
SyncCommands == <<"fetch", "rev-parse HEAD", "rev-parse origin", "merge-base">>

SyncOutputs(repo) == <<repo.fetch, repo.local, repo.remoteRef, repo.base>>

\* Mutant: a failed remote lookup does not return early and the sync check runs.
getGitInfoNoEarlyReturn(repo) ==
    IF repo.branch = Fail
    THEN [remoteUrl |-> Null, branch |-> Null, syncStatus |-> "Unknown",
          cmds |-> <<"branch">>]
    ELSE LET outs == SyncOutputs(repo)
             failed == {i \in 1..4 : outs[i] = Fail}
             ran == IF failed = {} THEN 4 ELSE Min(failed)
         IN  [remoteUrl |-> IF repo.remoteUrl = Fail THEN Null ELSE repo.remoteUrl,
              branch |-> repo.branch,
              syncStatus |-> IF failed = {}
                             THEN Classify(repo.local, repo.remoteRef, repo.base)
                             ELSE "Unknown",
              cmds |-> <<"branch", "remote">> \o SubSeq(SyncCommands, 1, ran)]

getGitInfo(repo) ==
    IF repo.branch = Fail
    THEN [remoteUrl |-> Null, branch |-> Null, syncStatus |-> "Unknown",
          cmds |-> <<"branch">>]
    ELSE IF repo.remoteUrl = Fail
    THEN [remoteUrl |-> Null, branch |-> repo.branch, syncStatus |-> "NoRemote",
          cmds |-> <<"branch", "remote">>]
    ELSE LET outs == SyncOutputs(repo)
             failed == {i \in 1..4 : outs[i] = Fail}
             ran == IF failed = {} THEN 4 ELSE Min(failed)
         IN  [remoteUrl |-> repo.remoteUrl, branch |-> repo.branch,
              syncStatus |-> IF failed = {}
                             THEN Classify(repo.local, repo.remoteRef, repo.base)
                             ELSE "Unknown",
              cmds |-> <<"branch", "remote">> \o SubSeq(SyncCommands, 1, ran)]

(***************************************************************************)
(* src/activity.ts: getGitActivity.  Dates are the YYYY-MM-DD strings of    *)
(* git's --date=short; DateOrder lists them in string order.                *)
(***************************************************************************)
MaxCommits == 3

DateOrder == <<"2023-06-15", "2024-01-01", "2024-01-02", "2024-01-03">>

WindowDates == {"2024-01-01", "2024-01-02", "2024-01-03"}

Rank(d) == CHOOSE i \in 1..Len(DateOrder) : DateOrder[i] = d

\* String.prototype.localeCompare on two dates: negative, zero or positive.
localeCompare(a, b) == Rank(a) - Rank(b)

RECURSIVE SeqsUpTo(_, _)
SeqsUpTo(S, n) ==
    IF n = 0 THEN {<<>>}
    ELSE LET shorter == SeqsUpTo(S, n - 1)
         IN  shorter \cup {Append(q, x) : q \in {r \in shorter : Len(r) = n - 1}, x \in S}

\* statsMap.set(date, (statsMap.get(date) || 0) + 1) on a Map kept in insertion order.
MapIncrement(m, date) ==
    IF \E i \in 1..Len(m) : m[i].date = date
    THEN [i \in 1..Len(m) |->
            IF m[i].date = date THEN [m[i] EXCEPT !.count = @ + 1] ELSE m[i]]
    ELSE Append(m, [date |-> date, count |-> 1])

RECURSIVE BuildStatsMap(_, _)
BuildStatsMap(m, lines) ==
    IF lines = <<>> THEN m
    ELSE BuildStatsMap(MapIncrement(m, Head(lines)), Tail(lines))

\* Array.prototype.sort with comparator (a, b) => b.date.localeCompare(a.date): stable.
RECURSIVE InsertDesc(_, _)
InsertDesc(sorted, e) ==
    IF sorted = <<>> THEN <<e>>
    ELSE IF localeCompare(e.date, Head(sorted).date) > 0
         THEN <<e>> \o sorted
         ELSE <<Head(sorted)>> \o InsertDesc(Tail(sorted), e)

RECURSIVE SortDesc(_)
SortDesc(stats) ==
    IF stats = <<>> THEN <<>>
    ELSE InsertDesc(SortDesc(SubSeq(stats, 1, Len(stats) - 1)), stats[Len(stats)])

GitActivityRepos ==
    [hasGit : BOOLEAN, logOk : BOOLEAN, window : SeqsUpTo(WindowDates, MaxCommits),
     lastEver : {"2023-06-15", "", Fail}]

\* Mutant: the latest date is read off the histogram in insertion order.
WindowBranchUnsorted(lines) ==
    LET stats == BuildStatsMap(<<>>, lines)
    IN  [lastActivity |-> stats[1].date, stats |-> stats]

\* lines.length > 0: histogram, sorted descending, its first date is the latest.
WindowBranch(lines) ==
    LET stats == SortDesc(BuildStatsMap(<<>>, lines))
    IN  [lastActivity |-> stats[1].date, stats |-> stats]

\* Mutant: the fallback records a count bucket for the commit it finds.
FallbackBranchBucket(lastEver) ==
    IF lastEver = Fail \/ lastEver = ""
    THEN [lastActivity |-> Null, stats |-> <<>>]
    ELSE [lastActivity |-> lastEver, stats |-> <<[date |-> lastEver, count |-> 1]>>]

\* No commit in the window: git log -1, whose date (if any) is the last activity.
FallbackBranch(lastEver) ==
    IF lastEver = Fail \/ lastEver = ""
    THEN [lastActivity |-> Null, stats |-> <<>>]
    ELSE [lastActivity |-> lastEver, stats |-> <<>>]

getGitActivity(repo) ==
    IF ~repo.hasGit
    THEN [lastActivity |-> Null, stats |-> <<>>, cmds |-> <<>>]
    ELSE IF ~repo.logOk
    THEN [lastActivity |-> Null, stats |-> <<>>, cmds |-> <<"log --since">>]
    ELSE IF Len(repo.window) > 0
    THEN LET r == WindowBranch(repo.window)
         IN  [lastActivity |-> r.lastActivity, stats |-> r.stats,
              cmds |-> <<"log --since">>]
    ELSE LET r == FallbackBranch(repo.lastEver)
         IN  [lastActivity |-> r.lastActivity, stats |-> r.stats,
              cmds |-> <<"log --since", "log -1">>]

(***************************************************************************)
(* src/db.ts: the tables projects and activity_stats and their upserts.     *)
(***************************************************************************)
Undefined == "UNDEFINED"

\* JavaScript's  x || null  on a string, null or undefined.
OrNull(x) == IF x = Undefined \/ x = Null \/ x = "" THEN Null ELSE x

\* The named parameters bound by stmt.run in upsertProject.
ProjectParams(project) ==
    [name |-> project.name, path |-> project.path, status |-> project.status,
     is_git |-> IF project.is_git THEN 1 ELSE 0,
     tech_stack |-> project.tech_stack, last_scanned |-> project.last_scanned,
     description |-> OrNull(project.description),
     remote_url |-> OrNull(project.remote_url),
     sync_status |-> OrNull(project.sync_status),
     branch_name |-> OrNull(project.branch_name),
     last_activity_date |-> OrNull(project.last_activity_date)]

WithId(params, id) == [f \in DOMAIN params \cup {"id"} |-> IF f = "id" THEN id ELSE params[f]]

\* Mutant: a plain INSERT, no ON CONFLICT(path) clause and no UNIQUE(path).
upsertProjectAlwaysInsert(rows, nextId, project) ==
    [rows |-> rows \cup {WithId(ProjectParams(project), nextId)}, nextId |-> nextId + 1]

\* Mutant: INSERT OR REPLACE, the row of the path is deleted and inserted anew.
upsertProjectReplace(rows, nextId, project) ==
    [rows |-> {r \in rows : r.path # project.path}
                \cup {WithId(ProjectParams(project), nextId)},
     nextId |-> nextId + 1]

\* INSERT ... ON CONFLICT(path) DO UPDATE SET every column but id and path.
upsertProject(rows, nextId, project) ==
    LET params == ProjectParams(project)
    IN  IF \E r \in rows : r.path = params.path
        THEN [rows |-> {IF r.path = params.path THEN WithId(params, r.id) ELSE r : r \in rows},
              nextId |-> nextId]
        ELSE [rows |-> rows \cup {WithId(params, nextId)}, nextId |-> nextId + 1]

\* What .get returns when no row matches (undefined); ids start at 1.
NoRow == [id |-> 0]

\* SELECT * FROM projects WHERE path = ?  (.get: a row or undefined)
getProjectByPath(rows, path) ==
    IF \E r \in rows : r.path = path
    THEN CHOOSE r \in rows : r.path = path
    ELSE NoRow

\* Mutant: ON CONFLICT adds the new count to the stored one.
insertRunAccumulate(rows, nextId, projectId, stat) ==
    IF \E r \in rows : r.project_id = projectId /\ r.date = stat.date
    THEN [rows |-> {IF r.project_id = projectId /\ r.date = stat.date
                    THEN [r EXCEPT !.changes_count = @ + stat.count] ELSE r : r \in rows},
          nextId |-> nextId]
    ELSE [rows |-> rows \cup {[id |-> nextId, project_id |-> projectId, date |-> stat.date,
                               changes_count |-> stat.count]},
          nextId |-> nextId + 1]

\* insert.run: INSERT ... ON CONFLICT(project_id, date) DO UPDATE SET changes_count.
insertRun(rows, nextId, projectId, stat) ==
    IF \E r \in rows : r.project_id = projectId /\ r.date = stat.date
    THEN [rows |-> {IF r.project_id = projectId /\ r.date = stat.date
                    THEN [r EXCEPT !.changes_count = stat.count] ELSE r : r \in rows},
          nextId |-> nextId]
    ELSE [rows |-> rows \cup {[id |-> nextId, project_id |-> projectId, date |-> stat.date,
                               changes_count |-> stat.count]},
          nextId |-> nextId + 1]

\* The body of insertMany: insert.run per stat, in order; the run of stat number
\* failAt throws (failAt = 0: none does) and the loop is left there.
RECURSIVE insertMany(_, _, _, _, _, _)
insertMany(rows, nextId, projectId, stats, k, failAt) ==
    IF k > Len(stats) THEN [rows |-> rows, nextId |-> nextId, ok |-> TRUE]
    ELSE IF k = failAt THEN [rows |-> rows, nextId |-> nextId, ok |-> FALSE]
    ELSE LET r == insertRun(rows, nextId, projectId, stats[k])
         IN  insertMany(r.rows, r.nextId, projectId, stats, k + 1, failAt)

\* Mutant: the loop runs outside a transaction, the rows written before the throw stay.
insertActivityStatsNoTransaction(rows, nextId, projectId, stats, failAt) ==
    insertMany(rows, nextId, projectId, stats, 1, failAt)

\* sqlite.transaction(fn): commit when fn returns, roll back when it throws.
insertActivityStats(rows, nextId, projectId, stats, failAt) ==
    LET r == insertMany(rows, nextId, projectId, stats, 1, failAt)
    IN  IF r.ok THEN r ELSE [rows |-> rows, nextId |-> nextId, ok |-> FALSE]


(***************************************************************************)
(* The file system under HOME that the scanner and the file walk read.      *)
(***************************************************************************)
DotNames == {".cache", ".env", ".git"}

StartsWithDot(name) == name \in DotNames

\* fs.readdir(rootPath, {withFileTypes: true}) of the sandbox root.
HomeEntries ==
    << [name |-> ".cache", isDirectory |-> TRUE],
       [name |-> "a", isDirectory |-> TRUE],
       [name |-> "node_modules", isDirectory |-> TRUE],
       [name |-> "notes.txt", isDirectory |-> FALSE],
       [name |-> "b", isDirectory |-> TRUE],
       [name |-> "c", isDirectory |-> TRUE] >>

\* isGitRepo, detectTechStack and getProjectDescription of each child directory.
DirFacts(name) ==
    CASE name = "a" -> [isGit |-> TRUE, techStack |-> "Node.js", description |-> "A demo"]
      [] name = "b" -> [isGit |-> FALSE, techStack |-> "Python", description |-> Null]
      [] OTHER -> [isGit |-> FALSE, techStack |-> Null, description |-> Null]

MaxMtime == 2

\* The tree of project b: the entries of each directory, in readdir order.
FsDir(d) ==
    CASE d = "b" ->
           << [name |-> ".env", kind |-> "file", node |-> "b/.env"],
              [name |-> "main.py", kind |-> "file", node |-> "b/main.py"],
              [name |-> "node_modules", kind |-> "dir", node |-> "b/node_modules"],
              [name |-> "locked", kind |-> "dir", node |-> "b/locked"],
              [name |-> "src", kind |-> "dir", node |-> "b/src"],
              [name |-> "late.py", kind |-> "file", node |-> "b/late.py"] >>
      [] d = "b/node_modules" ->
           << [name |-> "x.js", kind |-> "file", node |-> "b/node_modules/x.js"] >>
      [] d = "b/locked" ->
           << [name |-> "k.py", kind |-> "file", node |-> "b/locked/k.py"] >>
      [] OTHER ->
           << [name |-> "util.py", kind |-> "file", node |-> "b/src/util.py"] >>

FsDirs == {"b", "b/node_modules", "b/locked", "b/src"}

FsFiles == {"b/.env", "b/main.py", "b/node_modules/x.js", "b/locked/k.py",
            "b/src/util.py", "b/late.py"}

\* What the file system answers: readable[d] is whether fs.readdir(d) succeeds,
\* statOk[f] whether fs.stat(f) does, mtime[f] is stats.mtimeMs.
FsTrees ==
    {[readable |-> [d \in FsDirs |-> IF d = "b/node_modules" THEN TRUE ELSE r[d]],
      statOk |-> [f \in FsFiles |-> IF f \in {"b/main.py", "b/src/util.py"} THEN ok[f]
                                    ELSE TRUE],
      mtime |-> [f \in FsFiles |-> IF f \in {"b/main.py", "b/src/util.py", "b/late.py"}
                                   THEN m[f] ELSE MaxMtime + 1]] :
        r \in [{"b", "b/locked", "b/src"} -> BOOLEAN],
        ok \in [{"b/main.py", "b/src/util.py"} -> BOOLEAN],
        m \in [{"b/main.py", "b/src/util.py", "b/late.py"} -> 1..MaxMtime]}

\* The tree the analysis of project b walks.
DefaultTree ==
    [readable |-> [d \in FsDirs |-> d # "b/locked"],
     statOk |-> [f \in FsFiles |-> TRUE],
     mtime |-> [f \in FsFiles |-> IF f = "b/main.py" THEN 1
                                  ELSE IF f \in {"b/src/util.py", "b/late.py"} THEN 2
                                  ELSE MaxMtime + 1]]

\* new Date(ms).toISOString() for the first milliseconds of the epoch.
toISOString(ms) == "1970-01-01T00:00:00.00" \o ToString(ms) \o "Z"

SkippedName(name) ==
    StartsWithDot(name) \/ name \in {"node_modules", "dist", "build", "coverage"}

\* walk(currentPath): the greatest mtime seen so far when the call returns.  A
\* readdir that throws is caught at once; a stat that throws leaves the loop for
\* the same catch, so the entries after it in this directory are not visited.
RECURSIVE walk(_, _, _)
RECURSIVE walkEntries(_, _, _, _)
walkEntries(tree, entries, k, latest) ==
    IF k > Len(entries) THEN latest
    ELSE LET e == entries[k]
         IN  IF SkippedName(e.name) THEN walkEntries(tree, entries, k + 1, latest)
             ELSE IF e.kind = "dir"
                  THEN walkEntries(tree, entries, k + 1, walk(tree, e.node, latest))
             ELSE IF e.kind = "file"
                  THEN IF ~tree.statOk[e.node] THEN latest
                       ELSE walkEntries(tree, entries, k + 1,
                                        IF tree.mtime[e.node] > latest
                                        THEN tree.mtime[e.node] ELSE latest)
                  ELSE walkEntries(tree, entries, k + 1, latest)

walk(tree, d, latest) ==
    IF tree.readable[d] THEN walkEntries(tree, FsDir(d), 1, latest) ELSE latest

getFileActivity(tree, d) ==
    LET latestMtimeMs == walk(tree, d, 0)
    IN  IF latestMtimeMs = 0 THEN Null ELSE toISOString(latestMtimeMs)


(***************************************************************************)
(* src/scanner.ts: scanDirectory, one step per await-separated segment.     *)
(***************************************************************************)
ScanIds == {"s1"}

AnaIds == {"a1"}

MaxClock == 2

\* The roots a caller asks to scan.
ScanRoots == {HOME, <<"etc">>, <<"home", "u", "..", "..", "etc">>, <<"home", "u", "lnk">>}

\* [process.env.HOME || process.cwd()]
AllowedRoots == {HOME}

Readdir(root) ==
    IF Canonical(root) = HOME THEN HomeEntries
    ELSE << [name |-> "passwd", isDirectory |-> FALSE] >>

\* The loop's filter on an entry, evaluated without awaiting.
IsCandidate(entry) ==
    entry.isDirectory /\ ~StartsWithDot(entry.name) /\ entry.name # "node_modules"

\* The first entry at or after position k that passes the filter (Len + 1: none).
NextCandidate(entries, k) ==
    LET later == {i \in k..Len(entries) : IsCandidate(entries[i])}
    IN  IF later = {} THEN Len(entries) + 1 ELSE Min(later)

IdleScan ==
    [pc |-> "idle", root |-> <<>>, entries |-> <<>>, idx |-> 0, enumerated |-> FALSE,
     upserts |-> 0, returned |-> <<>>, outcome |-> "none"]

\* The Project object assembled for a qualifying child.
ScannedProject(root, name, facts, gitInfo, time) ==
    [name |-> name, path |-> Append(root, name), status |-> "active",
     is_git |-> facts.isGit, tech_stack |-> facts.techStack, last_scanned |-> time,
     description |-> facts.description, remote_url |-> gitInfo.remoteUrl,
     branch_name |-> gitInfo.branch, sync_status |-> gitInfo.syncStatus,
     last_activity_date |-> Undefined]

NoGitInfo == [remoteUrl |-> Null, branch |-> Null, syncStatus |-> Null]

\* Mutant: the root is enumerated without being validated first.
ScanStartNoValidate(s, root) ==
    /\ scan[s].pc \in {"idle", "done"}
    /\ LET entries == Readdir(root)
           first == NextCandidate(entries, 1)
       IN  scan' = [scan EXCEPT ![s] =
                      [pc |-> IF first > Len(entries) THEN "done" ELSE "loop",
                       root |-> root, entries |-> entries, idx |-> first,
                       enumerated |-> TRUE, upserts |-> 0, returned |-> <<>>,
                       outcome |-> IF first > Len(entries) THEN "ok" ELSE "none"]]
    /\ last' = [op |-> "scanStart", id |-> s]
    /\ UNCHANGED <<input, output, projects, activity_stats, nextProjectId, nextStatId,
                   now, env, ana, lastGiven>>

\* scanDirectory up to the first child: validatePath, then readdir.
ScanStart(s, root) ==
    /\ scan[s].pc \in {"idle", "done"}
    /\ LET v == validatePath(root, AllowedRoots)
           entries == Readdir(root)
           first == NextCandidate(entries, 1)
       IN  scan' = [scan EXCEPT ![s] =
                      IF v.kind = "error"
                      THEN [IdleScan EXCEPT !.pc = "done", !.root = root,
                                            !.outcome = "AccessDenied"]
                      ELSE [pc |-> IF first > Len(entries) THEN "done" ELSE "loop",
                            root |-> root, entries |-> entries, idx |-> first,
                            enumerated |-> TRUE, upserts |-> 0, returned |-> <<>>,
                            outcome |-> IF first > Len(entries) THEN "ok" ELSE "none"]]
    /\ last' = [op |-> "scanStart", id |-> s]
    /\ UNCHANGED <<input, output, projects, activity_stats, nextProjectId, nextStatId,
                   now, env, ana, lastGiven>>

\* One iteration of the loop on a candidate child: inspect, upsert, push; then on
\* to the next candidate, or return when there is none.
ScanChild(s) ==
    /\ scan[s].pc = "loop"
    /\ LET sc == scan[s]
           entry == sc.entries[sc.idx]
           facts == DirFacts(entry.name)
           qualifies == facts.isGit \/ facts.techStack # Null
           gitInfo == IF facts.isGit THEN getGitInfo(env.git) ELSE NoGitInfo
           project == ScannedProject(sc.root, entry.name, facts, gitInfo, now)
           up == IF qualifies THEN upsertProject(projects, nextProjectId, project)
                 ELSE [rows |-> projects, nextId |-> nextProjectId]
           next == NextCandidate(sc.entries, sc.idx + 1)
           finished == next > Len(sc.entries)
       IN  /\ projects' = up.rows
           /\ nextProjectId' = up.nextId
           /\ scan' = [scan EXCEPT ![s] =
                         [sc EXCEPT !.idx = next,
                                    !.pc = IF finished THEN "done" ELSE "loop",
                                    !.outcome = IF finished THEN "ok" ELSE "none",
                                    !.upserts = IF qualifies THEN @ + 1 ELSE @,
                                    !.returned = IF qualifies THEN Append(@, project.path)
                                                 ELSE @]]
           /\ last' = [op |-> "scanChild", id |-> s, path |-> project.path,
                       upserted |-> qualifies,
                       rowBefore |-> getProjectByPath(projects, project.path)]
    /\ UNCHANGED <<input, output, activity_stats, nextStatId, now, env, ana, lastGiven>>

\* The iteration on a qualifying child when upsertProject throws (the statement
\* fails in the store): the catch around the loop logs and rethrows, so the call
\* ends with the error, nothing is written for this child and the entries after
\* it are not looked at.
ScanChildThrows(s) ==
    /\ scan[s].pc = "loop"
    /\ LET sc == scan[s]
           entry == sc.entries[sc.idx]
           facts == DirFacts(entry.name)
       IN  /\ facts.isGit \/ facts.techStack # Null
           /\ scan' = [scan EXCEPT ![s] = [sc EXCEPT !.pc = "done", !.outcome = "Error"]]
           /\ last' = [op |-> "scanChildThrew", id |-> s,
                       path |-> Append(sc.root, entry.name)]
    /\ UNCHANGED <<input, output, projects, activity_stats, nextProjectId, nextStatId,
                   now, env, ana, lastGiven>>

\* The commits of the window grow older than 30 days: git log --since lists none.
WindowExpires ==
    /\ now < MaxClock
    /\ env.act.window # <<>>
    /\ env' = [env EXCEPT !.act.window = <<>>]
    /\ now' = now + 1
    /\ UNCHANGED <<input, output, projects, activity_stats, nextProjectId, nextStatId,
                   scan, ana, last, lastGiven>>

\* Time passes.
Tick ==
    /\ now < MaxClock
    /\ now' = now + 1
    /\ UNCHANGED <<input, output, projects, activity_stats, nextProjectId, nextStatId,
                   env, scan, ana, last, lastGiven>>


(***************************************************************************)
(* src/activity.ts: analyzeProjectActivity, split at its one await.         *)
(***************************************************************************)
\* The paths a caller asks to analyse.
AnalysisPaths == {Append(HOME, "a"), Append(HOME, "b"), <<"etc">>}

IdleAnalysis == [pc |-> "idle", path |-> <<>>, project |-> NoRow, outcome |-> "none"]

\* The most recently given count of every (project id, date) after a committed batch.
GivenAfter(given, projectId, stats) ==
    LET dates == {stats[i].date : i \in 1..Len(stats)}
        lastIndex(d) == CHOOSE i \in 1..Len(stats) :
                           /\ stats[i].date = d
                           /\ \A j \in 1..Len(stats) : stats[j].date = d => j <= i
    IN  {g \in given : ~(g.project_id = projectId /\ g.date \in dates)}
        \cup {[project_id |-> projectId, date |-> d, count |-> stats[lastIndex(d)].count] :
                d \in dates}

\* { ...project, last_activity_date }: the stored row with is_git read as a truth value.
WithLastActivity(row, lastActivityDate) ==
    [name |-> row.name, path |-> row.path, status |-> row.status,
     is_git |-> row.is_git # 0, tech_stack |-> row.tech_stack,
     last_scanned |-> row.last_scanned, description |-> row.description,
     remote_url |-> row.remote_url, branch_name |-> row.branch_name,
     sync_status |-> row.sync_status, last_activity_date |-> lastActivityDate]

\* Mutant: the record is written back whenever a date was computed.
ShouldUpdateAlways(project, lastActivityDate) == lastActivityDate # Null

\* if (lastActivityDate && project.last_activity_date !== lastActivityDate)
ShouldUpdate(project, lastActivityDate) ==
    /\ lastActivityDate # Null
    /\ project.last_activity_date # lastActivityDate

\* getProjectByPath, then the await of the aggregation starts.
AnalyzeStart(a, path) ==
    /\ ana[a].pc \in {"idle", "done"}
    /\ LET project == getProjectByPath(projects, path)
       IN  ana' = [ana EXCEPT ![a] =
                     IF project = NoRow
                     THEN [pc |-> "done", path |-> path, project |-> NoRow,
                           outcome |-> "returned"]
                     ELSE [pc |-> "await", path |-> path, project |-> project,
                           outcome |-> "none"]]
    /\ last' = [op |-> "analyzeStart", id |-> a, path |-> path]
    /\ UNCHANGED <<input, output, projects, activity_stats, nextProjectId, nextStatId,
                   now, env, scan, lastGiven>>

\* The aggregation has resolved: conditional project update, then the stats batch,
\* whose run number failAt throws (0: none).
AnalyzeFinish(a, failAt) ==
    /\ ana[a].pc = "await"
    /\ LET project == ana[a].project
           gitData == getGitActivity(env.act)
           lastActivityDate == IF project.is_git # 0 THEN gitData.lastActivity
                               ELSE getFileActivity(DefaultTree, project.path[Len(project.path)])
           stats == IF project.is_git # 0 THEN gitData.stats ELSE <<>>
           cmds == IF project.is_git # 0 THEN gitData.cmds ELSE <<>>
           doUpdate == ShouldUpdate(project, lastActivityDate)
           up == IF doUpdate
                 THEN upsertProject(projects, nextProjectId,
                                    WithLastActivity(project, lastActivityDate))
                 ELSE [rows |-> projects, nextId |-> nextProjectId]
           doStats == Len(stats) > 0 /\ project.id # 0
           ins == IF doStats
                  THEN insertActivityStats(activity_stats, nextStatId, project.id, stats, failAt)
                  ELSE [rows |-> activity_stats, nextId |-> nextStatId, ok |-> TRUE]
       IN  /\ failAt \in 0..(IF doStats THEN Len(stats) ELSE 0)
           /\ projects' = up.rows
           /\ nextProjectId' = up.nextId
           /\ activity_stats' = ins.rows
           /\ nextStatId' = ins.nextId
           /\ lastGiven' = IF doStats /\ ins.ok THEN GivenAfter(lastGiven, project.id, stats)
                           ELSE lastGiven
           /\ ana' = [ana EXCEPT ![a] = [@ EXCEPT !.pc = "done",
                                                  !.outcome = IF ins.ok THEN "returned"
                                                              ELSE "threw"]]
           /\ last' = [op |-> "analyze", id |-> a, path |-> project.path,
                       isGit |-> project.is_git # 0, lastActivity |-> lastActivityDate,
                       stats |-> stats, cmds |-> cmds, updated |-> doUpdate,
                       insertCalled |-> doStats, ok |-> ins.ok]
    /\ UNCHANGED <<input, output, now, env, scan>>

\* A git log subprocess of getGitActivity never responds.  Its exec call carries
\* no timeout option, so nothing settles the awaited promise: the analysis stays
\* where it is.
AnalyzeStalls(a) ==
    /\ ana[a].pc = "await"
    /\ ana[a].project.is_git # 0
    /\ env.act.hasGit
    /\ ana' = [ana EXCEPT ![a] = [@ EXCEPT !.pc = "stalled"]]
    /\ last' = [op |-> "analyzeStalls", id |-> a, path |-> ana[a].path]
    /\ UNCHANGED <<input, output, projects, activity_stats, nextProjectId, nextStatId,
                   now, env, scan, lastGiven>>

(***************************************************************************)
(* Direct calls of the exported functions on enumerated arguments.          *)
(***************************************************************************)
MaxCount == 2

StatDates == {"2024-01-01", "2024-01-02"}

StatProjectIds == {1, 2}

\* Lists of per-day rows as the aggregator builds them: one row per date.
StatLists ==
    {l \in SeqsUpTo([date : StatDates, count : 1..MaxCount], Cardinality(StatDates)) :
        \A i, j \in 1..Len(l) : i # j => l[i].date # l[j].date}

RootSets == (SUBSET {HOME, <<"etc", "in">>, <<"home">>}) \ {{}}

ValidatePathCall ==
    /\ input.fn = "validatePath" /\ output = NoResult
    /\ output' = validatePath(input.path, input.roots)
    /\ UNCHANGED <<input, projects, activity_stats, nextProjectId, nextStatId, now, env,
                   scan, ana, last, lastGiven>>

GetGitInfoCall ==
    /\ input.fn = "getGitInfo" /\ output = NoResult
    /\ output' = getGitInfo(input.repo)
    /\ UNCHANGED <<input, projects, activity_stats, nextProjectId, nextStatId, now, env,
                   scan, ana, last, lastGiven>>

GetGitActivityCall ==
    /\ input.fn = "getGitActivity" /\ output = NoResult
    /\ output' = getGitActivity(input.repo)
    /\ UNCHANGED <<input, projects, activity_stats, nextProjectId, nextStatId, now, env,
                   scan, ana, last, lastGiven>>

GetFileActivityCall ==
    /\ input.fn = "getFileActivity" /\ output = NoResult
    /\ output' = [kind |-> "fileActivity", value |-> getFileActivity(input.tree, input.dir)]
    /\ UNCHANGED <<input, projects, activity_stats, nextProjectId, nextStatId, now, env,
                   scan, ana, last, lastGiven>>

(***************************************************************************)
(* src/index.ts: the list_projects tool.  The table is seen through its    *)
(* number of rows; a row is named by its rank in ORDER BY name.            *)
(***************************************************************************)
MaxTotal == 52

MaxLimit == 50

DefaultLimit == 20

LimitArgs == {-1, 0, 1, 10, 49, 50, 51, 1000}

OffsetArgs == {-1, 0, 1, 50, 60}

\* SELECT ... ORDER BY name LIMIT ? OFFSET ?: a negative LIMIT is no limit, a
\* negative OFFSET is no offset.
SelectPage(total, limit, offset) ==
    LET skip == IF offset < 0 THEN 0 ELSE offset
        avail == IF total > skip THEN total - skip ELSE 0
        n == IF limit < 0 \/ limit > avail THEN avail ELSE limit
    IN  [i \in 1..n |-> skip + i]

list_projects(limit, offset, total) ==
    LET safeLimit == Min({limit, MaxLimit})
    IN  [kind |-> "page",
         data |-> SelectPage(total, safeLimit, offset),
         pagination |-> [limit |-> safeLimit, offset |-> offset, total |-> total,
                         has_more |-> offset + safeLimit < total]]

\* The tool call: an absent limit takes the schema's default.
ListProjectsCall ==
    /\ input.fn = "list_projects" /\ output = NoResult
    /\ output' = list_projects(IF input.limitGiven THEN input.limit ELSE DefaultLimit,
                               input.offset, input.total)
    /\ UNCHANGED <<input, projects, activity_stats, nextProjectId, nextStatId, now, env,
                   scan, ana, last, lastGiven>>

InsertActivityStatsCall(projectId, stats, failAt) ==
    /\ failAt \in 0..Len(stats)
    /\ LET ins == insertActivityStats(activity_stats, nextStatId, projectId, stats, failAt)
       IN  /\ activity_stats' = ins.rows
           /\ nextStatId' = ins.nextId
           /\ lastGiven' = IF ins.ok THEN GivenAfter(lastGiven, projectId, stats)
                           ELSE lastGiven
           /\ last' = [op |-> "insertActivityStats", projectId |-> projectId,
                       batch |-> Len(stats), failAt |-> failAt, ok |-> ins.ok,
                       replaced |-> Cardinality({i \in 1..Len(stats) :
                                      \E r \in activity_stats :
                                         /\ r.project_id = projectId
                                         /\ r.date = stats[i].date
                                         /\ r.changes_count # stats[i].count})]
    /\ UNCHANGED <<input, output, projects, nextProjectId, now, env, scan, ana>>

(***************************************************************************)
(* Specifications.                                                         *)
(***************************************************************************)
NoInput == [fn |-> "none"]

EmptyStore ==
    /\ projects = {}
    /\ activity_stats = {}
    /\ nextProjectId = 1
    /\ nextStatId = 1
    /\ now = 0
    /\ scan = [s \in ScanIds |-> IdleScan]
    /\ ana = [a \in AnaIds |-> IdleAnalysis]
    /\ last = [op |-> "none"]
    /\ lastGiven = {}

\* The repository of project a, as the scanner and the aggregator find it.
EnvGit ==
    {[branch |-> "main", remoteUrl |-> "git@origin", fetch |-> "ok",
      local |-> "h1", remoteRef |-> "h2", base |-> "h1"],
     [branch |-> "main", remoteUrl |-> Fail, fetch |-> Fail,
      local |-> "h1", remoteRef |-> Fail, base |-> Fail]}

EnvAct ==
    {[hasGit |-> TRUE, logOk |-> TRUE,
      window |-> <<"2024-01-01", "2024-01-02", "2024-01-01">>, lastEver |-> "2024-01-02"],
     [hasGit |-> TRUE, logOk |-> TRUE, window |-> <<>>, lastEver |-> "2023-06-15"],
     [hasGit |-> TRUE, logOk |-> TRUE, window |-> <<>>, lastEver |-> Fail]}

DefaultEnv ==
    [git |-> CHOOSE g \in EnvGit : g.remoteUrl # Fail,
     act |-> CHOOSE r \in EnvAct : r.window # <<>>]

Init ==
    /\ EmptyStore
    /\ input = NoInput
    /\ output = NoResult
    /\ env \in [git : EnvGit, act : EnvAct]

Next ==
    \/ \E s \in ScanIds, root \in ScanRoots : ScanStart(s, root)
    \/ \E s \in ScanIds : ScanChild(s)
    \/ \E s \in ScanIds : ScanChildThrows(s)
    \/ \E a \in AnaIds, path \in AnalysisPaths : AnalyzeStart(a, path)
    \/ \E a \in AnaIds, failAt \in 0..MaxCommits : AnalyzeFinish(a, failAt)
    \/ \E a \in AnaIds : AnalyzeStalls(a)
    \/ WindowExpires
    \/ Tick

Spec == Init /\ [][Next]_vars

\* Several scan_projects invocations in flight at once over an unchanged file
\* system: their steps interleave at the awaits.
ConcScanIds == {"s1", "s2"}

InitConc ==
    /\ projects = {}
    /\ activity_stats = {}
    /\ nextProjectId = 1
    /\ nextStatId = 1
    /\ now = 0
    /\ scan = [s \in ConcScanIds |-> IdleScan]
    /\ ana = [a \in AnaIds |-> IdleAnalysis]
    /\ last = [op |-> "none"]
    /\ lastGiven = {}
    /\ input = NoInput
    /\ output = NoResult
    /\ env \in [git : EnvGit, act : {DefaultEnv.act}]

NextConc ==
    \/ \E s \in ConcScanIds, root \in ScanRoots : ScanStart(s, root)
    \/ \E s \in ConcScanIds : ScanChild(s)
    \/ \E s \in ConcScanIds : ScanChildThrows(s)
    \/ Tick

SpecConc == InitConc /\ [][NextConc]_vars

InitFn ==
    /\ EmptyStore
    /\ env = DefaultEnv
    /\ output = NoResult
    /\ input \in [fn : {"validatePath"}, path : PathsUpTo(MaxPathLen), roots : RootSets]
                 \cup [fn : {"getGitInfo"}, repo : GitRepos]
                 \cup [fn : {"getGitActivity"}, repo : GitActivityRepos]
                 \cup [fn : {"getFileActivity"}, tree : FsTrees, dir : {"b"}]
                 \cup [fn : {"list_projects"}, limitGiven : BOOLEAN, limit : LimitArgs,
                        offset : OffsetArgs, total : 0..MaxTotal]

NextFn == ValidatePathCall \/ GetGitInfoCall \/ GetGitActivityCall \/ GetFileActivityCall
              \/ ListProjectsCall

SpecFn == InitFn /\ [][NextFn]_vars

InitStats ==
    /\ EmptyStore
    /\ env = DefaultEnv
    /\ input = NoInput
    /\ output = NoResult

NextStats ==
    \E projectId \in StatProjectIds, stats \in StatLists, failAt \in 0..Cardinality(StatDates) :
        InsertActivityStatsCall(projectId, stats, failAt)

SpecStats == InitStats /\ [][NextStats]_vars


(***************************************************************************)
(* Properties.                                                             *)
(***************************************************************************)
\* c is r itself or lies below r.
EqualOrDescendant(c, r) == \E k \in 0..Len(c) : SubSeq(c, 1, k) = r

\* C1: validatePath(P, R) returns the canonical form of P iff that form equals or
\* descends from the canonical form of some root of R, and fails with 'Access denied'
\* otherwise; a path outside the root, root + '../outside' and a link leaving the
\* root are rejected, a path inside the root is returned.
C1_ValidatePathSandbox ==
    (input.fn = "validatePath" /\ output # NoResult) =>
        LET c == Canonical(input.path)
            inside == \E r \in input.roots : EqualOrDescendant(c, Canonical(r))
        IN  /\ inside => output = [kind |-> "ok", path |-> c]
            /\ ~inside => output.kind = "error" /\ output.message = "Access denied"
            /\ (input.roots = {HOME} /\ input.path \in {<<"etc">>,
                                                        <<"home", "u", "..", "outside">>,
                                                        <<"home", "u", "lnk">>})
                  => output.kind = "error"
            /\ (input.roots = {HOME} /\ input.path = <<"home", "u", "outside">>)
                  => output = [kind |-> "ok", path |-> <<"home", "u", "outside">>]

C1_Witness ==
    /\ input.fn = "validatePath"
    /\ input.roots = {HOME}
    /\ input.path = <<"home", "u", "..", "outside">>
    /\ output # NoResult
    /\ output.kind = "error"

\* C2: a scanDirectory call whose root validatePath rejects fails with AccessDenied
\* before the directory is enumerated: it makes no upsertProject call, returns no
\* record and leaves both tables as they were.
C2_DeniedScanAbortsBeforeTraversal ==
    [][\A s \in DOMAIN scan :
         (scan'[s].pc # "idle" /\ validatePath(scan'[s].root, AllowedRoots).kind = "error")
            => /\ scan'[s].outcome = "AccessDenied"
               /\ ~scan'[s].enumerated
               /\ scan'[s].upserts = 0
               /\ scan'[s].returned = <<>>
               /\ (scan'[s] # scan[s]
                     => projects' = projects /\ activity_stats' = activity_stats)]_vars

C2_Witness ==
    /\ last.op = "scanStart"
    /\ scan[last.id].root = <<"home", "u", "..", "..", "etc">>
    /\ scan[last.id].outcome = "AccessDenied"
    /\ projects # {}

ResolvedAll(repo) ==
    /\ repo.branch # Fail /\ repo.remoteUrl # Fail /\ repo.fetch # Fail
    /\ repo.local # Fail /\ repo.remoteRef # Fail /\ repo.base # Fail

\* C3: with branch, origin URL and the three commit identifiers resolved, syncStatus
\* follows the table: local = remote Synced; else local = base Behind; else
\* remote = base Ahead; else Diverged -- one of the four for every triple.
C3_SyncStatusTable ==
    (input.fn = "getGitInfo" /\ output # NoResult /\ ResolvedAll(input.repo)) =>
        LET l == input.repo.local
            r == input.repo.remoteRef
            b == input.repo.base
        IN  /\ output.syncStatus \in {"Synced", "Behind", "Ahead", "Diverged"}
            /\ output.syncStatus = "Synced" <=> l = r
            /\ output.syncStatus = "Behind" <=> (l # r /\ l = b)
            /\ output.syncStatus = "Ahead" <=> (l # r /\ l # b /\ r = b)
            /\ output.syncStatus = "Diverged" <=> (l # r /\ l # b /\ r # b)

C3_Witness ==
    /\ input.fn = "getGitInfo"
    /\ output # NoResult
    /\ ResolvedAll(input.repo)
    /\ input.repo.local = input.repo.base
    /\ input.repo.local # input.repo.remoteRef
    /\ output.syncStatus = "Behind"

\* C4: getGitInfo always returns a GitInfo and degrades by stage: no branch gives
\* {null, null, Unknown} with no later command run; a branch but no origin URL gives
\* {null, branch, NoRemote} with no fetch; a failed fetch or hash resolution gives
\* Unknown with the branch and URL already resolved.
C4_DegradesByStage ==
    (input.fn = "getGitInfo" /\ output # NoResult) =>
        LET repo == input.repo
            ran == {output.cmds[i] : i \in 1..Len(output.cmds)}
        IN  /\ output.syncStatus \in SyncStatus
            /\ repo.branch = Fail =>
                  /\ output.remoteUrl = Null /\ output.branch = Null
                  /\ output.syncStatus = "Unknown"
                  /\ output.cmds = <<"branch">>
            /\ (repo.branch # Fail /\ repo.remoteUrl = Fail) =>
                  /\ output.remoteUrl = Null /\ output.branch = repo.branch
                  /\ output.syncStatus = "NoRemote"
                  /\ "fetch" \notin ran
                  /\ output.cmds = <<"branch", "remote">>
            /\ (repo.branch # Fail /\ repo.remoteUrl # Fail /\ ~ResolvedAll(repo)) =>
                  /\ output.remoteUrl = repo.remoteUrl /\ output.branch = repo.branch
                  /\ output.syncStatus = "Unknown"

C4_Witness ==
    /\ input.fn = "getGitInfo"
    /\ output # NoResult
    /\ input.repo.branch # Fail
    /\ input.repo.remoteUrl = Fail
    /\ input.repo.fetch # Fail
    /\ output.syncStatus = "NoRemote"

\* C5: the store holds at most one Project row per path, and a scan of a path that
\* already has a row updates that row (same id) instead of adding one.
C5_OneProjectPerPath ==
    /\ \A r1, r2 \in projects : r1.path = r2.path => r1 = r2
    /\ (last.op = "scanChild" /\ last.upserted /\ last.rowBefore # NoRow) =>
          /\ Cardinality({r \in projects : r.path = last.path}) = 1
          /\ getProjectByPath(projects, last.path).id = last.rowBefore.id

C5_Witness ==
    /\ last.op = "scanChild"
    /\ last.upserted
    /\ last.rowBefore # NoRow
    /\ Cardinality(projects) = 2
    /\ \E r \in projects : r.last_activity_date # Null


\* C6: a re-scan of an unchanged root leaves every field of an existing Project row
\* other than last_scanned (last_activity_date included) as it was before the call.
C6_RescanKeepsAllButLastScanned ==
    (last.op = "scanChild" /\ last.upserted /\ last.rowBefore # NoRow) =>
        LET row == getProjectByPath(projects, last.path)
        IN  \A f \in DOMAIN row \ {"last_scanned"} : row[f] = last.rowBefore[f]

StatKeys(rows) ==
    {[project_id |-> r.project_id, date |-> r.date, count |-> r.changes_count] : r \in rows}

\* C7: the store holds at most one ActivityStat row per (project id, date) and its
\* count is the one the most recent call that included the date gave for it.
C7_LastWriteWinsPerDay ==
    /\ \A r1, r2 \in activity_stats :
          (r1.project_id = r2.project_id /\ r1.date = r2.date) => r1 = r2
    /\ StatKeys(activity_stats) = lastGiven

C7_Witness ==
    /\ last.op = "insertActivityStats"
    /\ last.ok
    /\ last.replaced > 0
    /\ Cardinality(activity_stats) > 1

\* C8: a batch of which one row fails to be written leaves no row of the batch in
\* the store: the table is what it was before the call.
C8_FailedBatchLeavesNoRow ==
    [][(last'.op = "insertActivityStats" /\ ~last'.ok)
          => activity_stats' = activity_stats /\ nextStatId' = nextStatId]_vars

C8_Witness ==
    /\ last.op = "insertActivityStats"
    /\ ~last.ok
    /\ last.failAt = 2
    /\ last.replaced > 0

Occurrences(lines, d) == Cardinality({k \in 1..Len(lines) : lines[k] = d})

\* C9: with at least one commit in the window the histogram has one entry per
\* distinct commit day, each counting the commits listed for its day, and the last
\* activity is the greatest day, whatever the order of the listing.
C9_HistogramAndLatestDay ==
    (/\ input.fn = "getGitActivity" /\ output # NoResult
     /\ input.repo.hasGit /\ input.repo.logOk /\ Len(input.repo.window) > 0) =>
        LET lines == input.repo.window
            days == {lines[k] : k \in 1..Len(lines)}
            stats == output.stats
        IN  /\ Len(stats) = Cardinality(days)
            /\ {stats[i].date : i \in 1..Len(stats)} = days
            /\ \A i \in 1..Len(stats) : stats[i].count = Occurrences(lines, stats[i].date)
            /\ output.lastActivity \in days
            /\ \A d \in days : Rank(d) <= Rank(output.lastActivity)
            /\ (Occurrences(lines, "2024-01-01") = 2 /\ Occurrences(lines, "2024-01-02") = 1
                  /\ Len(lines) = 3)
                  => /\ {<<stats[i].date, stats[i].count>> : i \in 1..Len(stats)}
                          = {<<"2024-01-01", 2>>, <<"2024-01-02", 1>>}
                     /\ output.lastActivity = "2024-01-02"

C9_Witness ==
    /\ input.fn = "getGitActivity"
    /\ output # NoResult
    /\ input.repo.hasGit /\ input.repo.logOk
    /\ input.repo.window = <<"2024-01-01", "2024-01-02", "2024-01-01">>
    /\ output.lastActivity = "2024-01-02"

\* C10: with no commit in the window the aggregator issues one fallback query,
\* computes no per-day count, so insertActivityStats is not called and the
\* ActivityStat rows stay as they are, and the last activity is the day of that
\* commit (written to the row the call read when it differs from it), or absent when
\* there is no commit or the query fails, and then the projects table is untouched.
C10_EmptyWindowFallback ==
    [][\A a \in DOMAIN ana :
         (/\ ana[a].pc = "await" /\ ana'[a].pc = "done"
          /\ ana[a].project.is_git = 1
          /\ env.act.hasGit /\ env.act.logOk /\ env.act.window = <<>>)
            => /\ last'.cmds = <<"log --since", "log -1">>
               /\ last'.stats = <<>>
               /\ ~last'.insertCalled
               /\ activity_stats' = activity_stats
               /\ last'.lastActivity = IF env.act.lastEver \in {Fail, ""} THEN Null
                                       ELSE env.act.lastEver
               /\ last'.lastActivity = Null => projects' = projects
               /\ (last'.lastActivity # Null
                     /\ ana[a].project.last_activity_date # last'.lastActivity) =>
                     getProjectByPath(projects', ana[a].path).last_activity_date
                        = env.act.lastEver]_vars

C10_Witness ==
    /\ last.op = "analyze"
    /\ last.isGit
    /\ env.act.window = <<>>
    /\ last.cmds = <<"log --since", "log -1">>
    /\ last.lastActivity = "2024-01-02"
    /\ ~last.insertCalled
    /\ activity_stats # {}



(***************************************************************************)
(* C11                                                                     *)
(***************************************************************************)
\* The directories and the names on the way from the walked root b to a file.
FsAncestors(f) ==
    CASE f = "b/node_modules/x.js" -> {"b", "b/node_modules"}
      [] f = "b/locked/k.py" -> {"b", "b/locked"}
      [] f = "b/src/util.py" -> {"b", "b/src"}
      [] OTHER -> {"b"}

FsNames(f) ==
    CASE f = "b/.env" -> {".env"}
      [] f = "b/main.py" -> {"main.py"}
      [] f = "b/node_modules/x.js" -> {"node_modules", "x.js"}
      [] f = "b/locked/k.py" -> {"locked", "k.py"}
      [] f = "b/src/util.py" -> {"src", "util.py"}
      [] OTHER -> {"late.py"}

\* The regular files the walk is to take into account: not beneath a hidden or
\* ignored name, inside readable directories only, and themselves readable.
EligibleFiles(tree) ==
    {f \in FsFiles : /\ \A n \in FsNames(f) : ~SkippedName(n)
                     /\ \A d \in FsAncestors(f) : tree.readable[d]
                     /\ tree.statOk[f]}

ExpectedFileActivity(tree) ==
    IF EligibleFiles(tree) = {} THEN Null
    ELSE toISOString(CHOOSE m \in {tree.mtime[f] : f \in EligibleFiles(tree)} :
                        \A f \in EligibleFiles(tree) : tree.mtime[f] <= m)

\* C11: the walk of a directory without version control returns the greatest
\* modification time among the regular files that lie under no hidden or ignored
\* name and in readable directories, a failure on one subdirectory or one entry
\* skipping only that subdirectory or entry; it returns no date when there is no
\* such file.
C11_WalkSkipsOnlyTheFailedEntry ==
    (input.fn = "getFileActivity" /\ output # NoResult)
        => output.value = ExpectedFileActivity(input.tree)


(***************************************************************************)
(* C12                                                                     *)
(***************************************************************************)
\* C12: an error on one child of the scanned root is caught for that child only:
\* a scan that enumerated its root ends normally, and when it ends every
\* candidate child has been inspected.
C12_ChildErrorDoesNotAbortScan ==
    \A s \in DOMAIN scan :
        (scan[s].pc = "done" /\ scan[s].enumerated)
            => /\ scan[s].outcome = "ok"
               /\ NextCandidate(scan[s].entries, scan[s].idx) > Len(scan[s].entries)


(***************************************************************************)
(* C13                                                                     *)
(***************************************************************************)
\* What the caller of a finished scanDirectory receives: the list on a normal
\* return, nothing when the call ends with an error.
ReturnedToCaller(s) == IF scan[s].outcome = "ok" THEN scan[s].returned ELSE <<>>

\* C13: the list a scanDirectory call returns holds exactly the records the call
\* upserted, one per path: as many entries as upserts, no path twice, and every
\* entry stored.
C13_ReturnedExactlyTheUpserted ==
    \A s \in DOMAIN scan :
        scan[s].pc = "done"
            => LET list == ReturnedToCaller(s)
               IN  /\ Len(list) = scan[s].upserts
                   /\ \A i, j \in 1..Len(list) : list[i] = list[j] => i = j
                   /\ \A i \in 1..Len(list) : \E row \in projects : row.path = list[i]

(***************************************************************************)
(* C14                                                                     *)
(***************************************************************************)
\* The children of a scanned root that are to be upserted.
QualifyingPaths(root, entries) ==
    {Append(root, entries[i].name) :
        i \in {k \in 1..Len(entries) :
                 /\ entries[k].isDirectory
                 /\ ~StartsWithDot(entries[k].name)
                 /\ entries[k].name # "node_modules"
                 /\ (DirFacts(entries[k].name).isGit
                       \/ DirFacts(entries[k].name).techStack # Null)}}

\* C14: a child of the scanned root is upserted exactly when it is a directory
\* whose name neither starts with a dot nor is node_modules and that is a
\* repository or has a tech label: the paths a finished scan wrote are the
\* qualifying children, and a step on any other child leaves the store alone.
C14_UpsertedIffQualifying ==
    \A s \in DOMAIN scan :
        (scan[s].pc = "done" /\ scan[s].enumerated)
            => {scan[s].returned[i] : i \in 1..Len(scan[s].returned)}
                   = QualifyingPaths(scan[s].root, scan[s].entries)


(***************************************************************************)
(* C15                                                                     *)
(***************************************************************************)
\* C15: list_projects never uses a limit above 50 (a requested 1000 becomes 50),
\* never returns more than 50 records, and reports has_more exactly when offset
\* plus the limit used is below the total.
C15_PageAtMostFifty ==
    (input.fn = "list_projects" /\ output # NoResult)
        => /\ output.pagination.limit <= MaxLimit
           /\ (input.limitGiven /\ input.limit = 1000) => output.pagination.limit = MaxLimit
           /\ Len(output.data) <= MaxLimit
           /\ output.pagination.has_more
                <=> (input.offset + output.pagination.limit < input.total)


(***************************************************************************)
(* C16                                                                     *)
(***************************************************************************)
\* The columns a scan of the unchanged root writes for a child, leaving out the
\* time of the scan and the activity date.
ScanColumns == {"name", "path", "status", "is_git", "tech_stack", "description",
                "remote_url", "branch_name", "sync_status"}

SingleScanRow(name) ==
    LET facts == DirFacts(name)
        gitInfo == IF facts.isGit THEN getGitInfo(env.git) ELSE NoGitInfo
    IN  ProjectParams(ScannedProject(HOME, name, facts, gitInfo, now))

AllScansComplete ==
    \A s \in DOMAIN scan :
        scan[s].pc = "done" /\ scan[s].outcome = "ok" /\ scan[s].root = HOME

\* C16: once every one of several interleaved scans of the same unchanged root
\* has completed, each discovered path has exactly one Project record, no other
\* path has one, and the record's scanned columns are those a single scan writes.
C16_InterleavedScansConverge ==
    AllScansComplete
        => /\ {r.path : r \in projects} = QualifyingPaths(HOME, HomeEntries)
           /\ \A r1, r2 \in projects : r1.path = r2.path => r1 = r2
           /\ \A r \in projects :
                 \A f \in ScanColumns : r[f] = SingleScanRow(r.path[Len(r.path)])[f]

\* Both scans have completed, the first child was written by one of them while
\* the other was already in its loop.
C16_Witness ==
    /\ AllScansComplete
    /\ Cardinality(DOMAIN scan) = 2
    /\ \A s \in DOMAIN scan : scan[s].upserts = 2
    /\ Cardinality(projects) = 2
    /\ \E r1, r2 \in projects : r1.last_scanned # r2.last_scanned


(***************************************************************************)
(* C17                                                                     *)
(***************************************************************************)
\* C17: every version-control subprocess runs under a timeout of its own, so a
\* call in flight is never left without a way to return: a scan inside its loop
\* and an analysis past its read can always take their next step.
C17_CallsInFlightCanReturn ==
    /\ \A s \in DOMAIN scan :
          scan[s].pc \notin {"idle", "done"}
              => ENABLED (ScanChild(s) \/ ScanChildThrows(s))
    /\ \A a \in DOMAIN ana :
          ana[a].pc \notin {"idle", "done"}
              => ENABLED (\E failAt \in 0..MaxCommits : AnalyzeFinish(a, failAt))


(***************************************************************************)
(* C18                                                                     *)
(***************************************************************************)
\* C18: a finishing analysis writes the Project record exactly when the date it
\* computed is present and differs from the last_activity_date of the record it
\* read, hands its per-day counts to the store exactly when there is at least
\* one (the committed batch is then in the table), and with no date and no count
\* returns without error and leaves both tables as they were.
C18_WritesOnlyOnNewData ==
    [][\A a \in DOMAIN ana :
         (ana[a].pc = "await" /\ ana'[a].pc = "done")
            => LET read == ana[a].project
                   date == last'.lastActivity
                   stats == last'.stats
               IN  /\ last'.updated <=> (date # Null /\ read.last_activity_date # date)
                   /\ last'.updated =>
                         getProjectByPath(projects', ana[a].path).last_activity_date = date
                   /\ ~last'.updated => projects' = projects
                   /\ last'.insertCalled <=> Len(stats) > 0
                   /\ (last'.insertCalled /\ last'.ok) =>
                         \A i \in 1..Len(stats) :
                            \E row \in activity_stats' :
                               /\ row.project_id = read.id
                               /\ row.date = stats[i].date
                               /\ row.changes_count = stats[i].count
                   /\ ~last'.insertCalled => activity_stats' = activity_stats
                   /\ (date = Null /\ Len(stats) = 0) =>
                         /\ ana'[a].outcome = "returned"
                         /\ projects' = projects /\ activity_stats' = activity_stats
                         /\ nextProjectId' = nextProjectId /\ nextStatId' = nextStatId]_vars

\* An analysis found neither a date nor a count while the store held records.
C18_Witness ==
    /\ last.op = "analyze"
    /\ last.lastActivity = Null
    /\ last.stats = <<>>
    /\ ~last.updated /\ ~last.insertCalled
    /\ \E a \in DOMAIN ana : ana[a].pc = "done" /\ ana[a].outcome = "returned"
    /\ Cardinality(projects) = 2


(***************************************************************************)
(* C19                                                                     *)
(***************************************************************************)
\* C19: an analysis requested for a path without a Project record ends with an
\* outcome its caller can tell from that of a successful analysis, and writes
\* nothing to either table.
C19_NotFoundIsSignaled ==
    [][\A a \in DOMAIN ana :
         (last'.op = "analyzeStart" /\ last'.id = a /\ ana'[a].project = NoRow)
            => /\ ana'[a].pc = "done"
               /\ ana'[a].outcome # "returned"
               /\ projects' = projects /\ activity_stats' = activity_stats
               /\ nextProjectId' = nextProjectId /\ nextStatId' = nextStatId]_vars

(***************************************************************************)
(* C20                                                                     *)
(***************************************************************************)
\* The columns of a Project row other than its key and last_activity_date.
OtherColumns == {"name", "status", "is_git", "tech_stack", "last_scanned", "description",
                 "remote_url", "branch_name", "sync_status"}

\* C20: the write of a finishing analysis changes at most last_activity_date:
\* every other column of the record keeps the value the store held just before
\* the write, whatever a scan did to the record since the analysis read it.
C20_AnalysisTouchesOnlyActivityDate ==
    [][\A a \in DOMAIN ana :
         (ana[a].pc = "await" /\ ana'[a].pc = "done")
            => \A f \in OtherColumns :
                  getProjectByPath(projects', ana[a].path)[f]
                     = getProjectByPath(projects, ana[a].path)[f]]_vars


(***************************************************************************)
(* C21                                                                     *)
(***************************************************************************)
\* C21: over every step of scans and analyses the stored paths only grow, the
\* Project record of a path keeps its id, no two records share an id, every
\* ActivityStat row names the id of an existing Project record, and a row once
\* written keeps its project id, so it stays with the same path.
C21_IdsStableAndStatsAttached ==
    [][/\ \A r \in projects :
             /\ \E r2 \in projects' : r2.path = r.path
             /\ getProjectByPath(projects', r.path).id = r.id
       /\ \A r1, r2 \in projects' : r1.id = r2.id => r1 = r2
       /\ \A st \in activity_stats' : \E r \in projects' : r.id = st.project_id
       /\ \A st \in activity_stats :
             \E st2 \in activity_stats' :
                st2.id = st.id /\ st2.project_id = st.project_id /\ st2.date = st.date]_vars

\* A re-scan has just updated in place a record that ActivityStat rows refer to.
C21_Witness ==
    /\ last.op = "scanChild"
    /\ last.upserted
    /\ last.rowBefore # NoRow
    /\ \E st \in activity_stats : st.project_id = last.rowBefore.id
    /\ getProjectByPath(projects, last.path).id = last.rowBefore.id
    /\ getProjectByPath(projects, last.path).last_scanned # last.rowBefore.last_scanned

====
